---- MODULE Spec2Model ----
(***************************************************************************)
(* Model of opml2txt.py: the OPML -> feedlist.txt converter.               *)
(*                                                                         *)
(* A Python str is a sequence of one-character strings, so that            *)
(* startswith, endswith, the f-string concatenations and the line          *)
(* structure of the written file are computed, not assumed.                *)
(* An optional value (the result of Element.get) is <<>> for None and      *)
(* <<s>> for the string s.                                                 *)
(***************************************************************************)
EXTENDS Integers, Sequences, FiniteSets, TLC

VARIABLES
    argv,              \* sys.argv; <<>> when process_opml_files is called directly
    fs,                \* the file system: path -> file content
    writable,          \* whether open(output_file, 'w') succeeds
    pc,                \* position in the program
    input_files,       \* process_opml_files parameter
    output_file,       \* process_opml_files parameter
    add_comments,      \* process_opml_files parameter
    files_to_process,  \* local of process_opml_files
    ri,                \* index of the pattern loop (line 49)
    fi,                \* index of the file loop (line 57)
    feeds,             \* local of process_opml_files: last extraction result
    all_feeds,         \* local of process_opml_files
    seen_urls,         \* local of process_opml_files
    markerPos,         \* history: positions of all_feeds appended by lines 67-78
    called,            \* history: process_opml_files has been entered
    output,            \* <<>> while the output file is untouched, <<text>> once written
    ret,               \* return value of process_opml_files (-1 before it returns)
    exit_code,         \* process exit status (-1 while running)
    stdout             \* what was printed, as a sequence of events

vars == <<argv, fs, writable, pc, input_files, output_file, add_comments,
          files_to_process, ri, fi, feeds, all_feeds, seen_urls, markerPos,
          called, output, ret, exit_code, stdout>>

----------------------------------------------------------------------------
(* Bounds of the model *)

MaxArgs == 3       \* command-line arguments after the program name
MaxInputs == 2     \* input patterns of a direct call
MaxNodes == 3      \* elements below the root of a generated document

----------------------------------------------------------------------------
(* Strings *)

NL == "\n"
EmptyStr == <<>>

StartsWith(s, p) == Len(s) >= Len(p) /\ SubSeq(s, 1, Len(p)) = p

EndsWith(s, p) == Len(s) >= Len(p) /\ SubSeq(s, Len(s) - Len(p) + 1, Len(s)) = p

HasChar(s, c) == \E i \in 1..Len(s) : s[i] = c

InList(x, s) == \E i \in 1..Len(s) : s[i] = x

RECURSIVE Flatten(_)
Flatten(ss) == IF ss = <<>> THEN <<>> ELSE Head(ss) \o Flatten(Tail(ss))

SepWidth == 40

HashChar == <<"#">>
DotOpml == <<".", "o", "p", "m", "l">>
NoCommentsFlag == <<"-", "-", "n", "o", "-", "c", "o", "m", "m", "e", "n", "t", "s">>
DefaultOutput == <<"f", "e", "e", "d", "l", "i", "s", "t", ".", "t", "x", "t">>
SeparatorLine == <<"#", " ">> \o [i \in 1..SepWidth |-> "="]
FeedsFromPrefix == <<"#", " ", "F", "e", "e", "d", "s", " ", "f", "r", "o", "m", ":", " ">>
TitlePrefix == <<"#", " ">>

----------------------------------------------------------------------------
(* Optional values and Python truthiness *)

None == <<>>
Some(s) == <<s>>

Truthy(o) == o # None /\ o[1] # EmptyStr

\* Python's  a or b
PyOr(a, b) == IF Truthy(a) THEN a ELSE b

----------------------------------------------------------------------------
(* File contents.  A document is the sequence of its elements in document  *)
(* order; element 1 is the root and every other element names its parent.  *)

\* kind "missing": no such path; kind "xml": ET.parse succeeds and gives doc;
\* kind "bad": ET.parse raises (malformed or unreadable text), doc being the
\* elements that precede the error in the text
Missing == [kind |-> "missing", doc |-> <<>>]
Xml(d) == [kind |-> "xml", doc |-> d]
Malformed(d) == [kind |-> "bad", doc |-> d]

Node(tag, parent, attrs) == [tag |-> tag, parent |-> parent, attrs |-> attrs]

\* the attributes the program reads; an absent attribute is None
Attrs(xmlUrl, title, text) == [xmlUrl |-> xmlUrl, title |-> title, text |-> text]

\* Element.get(key)
Get(node, key) == node.attrs[key]

ChildrenOf(doc, n) == SelectSeq([i \in 1..Len(doc) |-> i], LAMBDA i : doc[i].parent = n)

\* mutant of Iter: only the direct children are looked at, as findall(tag) does
IterDirect(doc, n, tag) ==
    SelectSeq(ChildrenOf(doc, n), LAMBDA i : doc[i].tag = tag)

\* Element.iter(tag): the element itself when its tag matches, then the
\* iteration of each child, in order
RECURSIVE Iter(_, _, _)
RECURSIVE IterEach(_, _, _)
Iter(doc, n, tag) ==
    (IF doc[n].tag = tag THEN <<n>> ELSE <<>>) \o IterEach(doc, ChildrenOf(doc, n), tag)
IterEach(doc, kids, tag) ==
    IF kids = <<>> THEN <<>>
    ELSE Iter(doc, Head(kids), tag) \o IterEach(doc, Tail(kids), tag)

\* lines 27-34: the record of one outline, or nothing
FeedOf(outline) ==
    LET xml_url == Get(outline, "xmlUrl")
        title == PyOr(PyOr(Get(outline, "title"), Get(outline, "text")), Some(EmptyStr))
    IN  IF Truthy(xml_url)
        THEN << [url |-> xml_url[1], title |-> title[1]] >>
        ELSE <<>>

RECURSIVE FeedsOfOutlines(_, _)
FeedsOfOutlines(doc, outlines) ==
    IF outlines = <<>> THEN <<>>
    ELSE FeedOf(doc[Head(outlines)]) \o FeedsOfOutlines(doc, Tail(outlines))

\* mutant of extract_feeds_from_opml: the except branch returns what was
\* gathered before the error instead of []
ExtractKeepsPartial(file) ==
    IF file.kind = "missing" THEN <<>>
    ELSE FeedsOfOutlines(file.doc, Iter(file.doc, 1, "outline"))

\* lines 19-39: the feeds of a parsed document, [] when ET.parse raised
extract_feeds_from_opml(file) ==
    IF file.kind = "xml"
    THEN FeedsOfOutlines(file.doc, Iter(file.doc, 1, "outline"))
    ELSE <<>>

----------------------------------------------------------------------------
(* Paths *)

FileAt(path) == IF path \in DOMAIN fs THEN fs[path] ELSE Missing

\* Path.exists()
Exists(path) == FileAt(path).kind # "missing"

\* Path.name: the final path component
PathName(path) ==
    LET slashes == {i \in 1..Len(path) : path[i] = "/"}
    IN  IF slashes = {} THEN path
        ELSE SubSeq(path, (CHOOSE i \in slashes : \A j \in slashes : j <= i) + 1, Len(path))

\* shell-style matching of one path component: * and ? never match a slash
RECURSIVE Match(_, _)
Match(p, s) ==
    IF p = <<>> THEN s = <<>>
    ELSE IF Head(p) = "*"
         THEN Match(Tail(p), s) \/ (s # <<>> /\ Head(s) # "/" /\ Match(p, Tail(s)))
         ELSE IF Head(p) = "?"
              THEN s # <<>> /\ Head(s) # "/" /\ Match(Tail(p), Tail(s))
              ELSE s # <<>> /\ Head(s) = Head(p) /\ Match(Tail(p), Tail(s))

\* Path('.').glob(pattern): the existing entries that match, in no promised order
GlobMatches(pattern) == {p \in DOMAIN fs : Exists(p) /\ Match(pattern, p)}

Orderings(S) ==
    {s \in [1..Cardinality(S) -> S] : \A i, j \in 1..Cardinality(S) : s[i] = s[j] => i = j}

----------------------------------------------------------------------------
(* process_opml_files: the aggregation and the writer *)

Feed(url, title) == [url |-> url, title |-> title]

\* lines 67-78: the three records that head a file's section
SectionHeader(name) ==
    << Feed(SeparatorLine, EmptyStr),
       Feed(FeedsFromPrefix \o name, EmptyStr),
       Feed(SeparatorLine, EmptyStr) >>

\* mutant of HeaderFor: the test of feeds is forgotten
HeaderForAnyFile(path, fds, ac) ==
    IF ac THEN SectionHeader(PathName(path)) ELSE <<>>

\* line 66: the header is added when comments are on and the file gave feeds
HeaderFor(path, fds, ac) ==
    IF ac /\ fds # <<>> THEN SectionHeader(PathName(path)) ELSE <<>>

\* mutant of AddFeeds: a url seen again replaces its earlier record
RECURSIVE AddFeedsKeepLast(_, _, _)
AddFeedsKeepLast(all, seen, fds) ==
    IF fds = <<>> THEN [all |-> all, seen |-> seen]
    ELSE LET feed == Head(fds)
             others == SelectSeq(all, LAMBDA f : f.url # feed.url)
         IN  AddFeedsKeepLast(Append(others, feed), seen \cup {feed.url}, Tail(fds))

\* mutant of AddFeeds: the seen set is not consulted
AddFeedsNoCheck(all, seen, fds) ==
    [all |-> all \o fds, seen |-> seen \cup {fds[i].url : i \in 1..Len(fds)}]

\* lines 81-84: append each feed whose url was not seen yet
RECURSIVE AddFeeds(_, _, _)
AddFeeds(all, seen, fds) ==
    IF fds = <<>> THEN [all |-> all, seen |-> seen]
    ELSE LET feed == Head(fds)
         IN  IF feed.url \notin seen
             THEN AddFeeds(Append(all, feed), seen \cup {feed.url}, Tail(fds))
             ELSE AddFeeds(all, seen, Tail(fds))

\* feed['url'].startswith('#')
IsComment(feed) == StartsWith(feed.url, HashChar)

\* mutant of WriteFeed: the blank line is written whatever add_comments is
WriteFeedAlwaysBlank(feed, ac) ==
    (IF ac /\ feed.title # EmptyStr /\ ~IsComment(feed)
     THEN TitlePrefix \o feed.title \o <<NL>> ELSE <<>>)
    \o feed.url \o <<NL>>
    \o (IF ~IsComment(feed) THEN <<NL>> ELSE <<>>)

\* mutant of WriteFeed: the title line does not test for a comment record
WriteFeedTitlesComments(feed, ac) ==
    (IF ac /\ feed.title # EmptyStr
     THEN TitlePrefix \o feed.title \o <<NL>> ELSE <<>>)
    \o feed.url \o <<NL>>
    \o (IF ac /\ ~IsComment(feed) THEN <<NL>> ELSE <<>>)

\* lines 91-96: what the writer emits for one record
WriteFeed(feed, ac) ==
    (IF ac /\ feed.title # EmptyStr /\ ~IsComment(feed)
     THEN TitlePrefix \o feed.title \o <<NL>> ELSE <<>>)
    \o feed.url \o <<NL>>
    \o (IF ac /\ ~IsComment(feed) THEN <<NL>> ELSE <<>>)

\* lines 90-96
RECURSIVE WriteAll(_, _)
WriteAll(fds, ac) ==
    IF fds = <<>> THEN <<>> ELSE WriteFeed(Head(fds), ac) \o WriteAll(Tail(fds), ac)

\* mutant of ReturnValue: the length of the output sequence is returned
ReturnsRecordCount(all, seen) == Len(all)

\* line 99
ReturnValue(all, seen) == Cardinality(seen)

Event(kind, path, n) == [kind |-> kind, path |-> path, n |-> n]

----------------------------------------------------------------------------
(* main: argument parsing *)

\* the condition of lines 113 and 114
LastIsOutput(av) == Len(av) > 2 /\ ~EndsWith(av[Len(av)], DotOpml)

\* lines 113, 118-119
InputFilesOf(av) ==
    LET positional == IF LastIsOutput(av) THEN SubSeq(av, 2, Len(av) - 1)
                      ELSE SubSeq(av, 2, Len(av))
    IN  IF InList(NoCommentsFlag, av)
        THEN SelectSeq(positional, LAMBDA f : f # NoCommentsFlag)
        ELSE positional

\* line 114
OutputFileOf(av) == IF LastIsOutput(av) THEN av[Len(av)] ELSE DefaultOutput

\* line 117
AddCommentsOf(av) == ~InList(NoCommentsFlag, av)

ViaMain == argv # <<>>

----------------------------------------------------------------------------
(* Actions *)

\* lines 103-110
MainUsage ==
    /\ pc = "main"
    /\ Len(argv) < 2
    /\ stdout' = Append(stdout, Event("usage", EmptyStr, 0))
    /\ exit_code' = 1
    /\ pc' = "exit"
    /\ UNCHANGED <<argv, fs, writable, input_files, output_file, add_comments,
                   files_to_process, ri, fi, feeds, all_feeds, seen_urls, markerPos,
                   called, output, ret>>

\* lines 112-123: parse the arguments and enter process_opml_files (lines 44-48)
MainParse ==
    /\ pc = "main"
    /\ Len(argv) >= 2
    /\ input_files' = InputFilesOf(argv)
    /\ output_file' = OutputFileOf(argv)
    /\ add_comments' = AddCommentsOf(argv)
    /\ called' = TRUE
    /\ pc' = "resolve"
    /\ UNCHANGED <<argv, fs, writable, files_to_process, ri, fi, feeds, all_feeds,
                   seen_urls, markerPos, output, ret, exit_code, stdout>>

\* lines 49-54: one pattern of input_files
ResolvePattern ==
    /\ pc = "resolve"
    /\ ri <= Len(input_files)
    /\ LET pattern == input_files[ri]
       IN  IF HasChar(pattern, "*") \/ HasChar(pattern, "?")
           THEN \E order \in Orderings(GlobMatches(pattern)) :
                    files_to_process' = files_to_process \o order
           ELSE files_to_process' = Append(files_to_process, pattern)
    /\ ri' = ri + 1
    /\ UNCHANGED <<argv, fs, writable, pc, input_files, output_file, add_comments,
                   fi, feeds, all_feeds, seen_urls, markerPos, called, output, ret,
                   exit_code, stdout>>

\* line 49 exhausted: go on to the file loop
ResolveDone ==
    /\ pc = "resolve"
    /\ ri > Len(input_files)
    /\ pc' = "loop"
    /\ UNCHANGED <<argv, fs, writable, input_files, output_file, add_comments,
                   files_to_process, ri, fi, feeds, all_feeds, seen_urls, markerPos,
                   called, output, ret, exit_code, stdout>>

\* lines 58-60: a path that does not exist is skipped
SkipMissing ==
    /\ pc = "loop"
    /\ fi <= Len(files_to_process)
    /\ ~Exists(files_to_process[fi])
    /\ stdout' = Append(stdout, Event("not found", files_to_process[fi], 0))
    /\ fi' = fi + 1
    /\ UNCHANGED <<argv, fs, writable, pc, input_files, output_file, add_comments,
                   files_to_process, ri, feeds, all_feeds, seen_urls, markerPos,
                   called, output, ret, exit_code>>

\* lines 62-86: one existing file
ProcessFile ==
    /\ pc = "loop"
    /\ fi <= Len(files_to_process)
    /\ Exists(files_to_process[fi])
    /\ LET opml_file == files_to_process[fi]
           fds == extract_feeds_from_opml(FileAt(opml_file))
           header == HeaderFor(opml_file, fds, add_comments)
           r == AddFeeds(all_feeds \o header, seen_urls, fds)
       IN  /\ feeds' = fds
           /\ all_feeds' = r.all
           /\ seen_urls' = r.seen
           /\ markerPos' = markerPos \cup
                  {Len(all_feeds) + k : k \in 1..Len(header)}
           /\ stdout' = stdout
                  \o (IF FileAt(opml_file).kind = "bad"
                      THEN <<Event("error parsing", opml_file, 0)>> ELSE <<>>)
                  \o <<Event("found", opml_file, Len(fds))>>
    /\ fi' = fi + 1
    /\ UNCHANGED <<argv, fs, writable, pc, input_files, output_file, add_comments,
                   files_to_process, ri, called, output, ret, exit_code>>

\* line 57 exhausted: go on to the writer
LoopDone ==
    /\ pc = "loop"
    /\ fi > Len(files_to_process)
    /\ pc' = "write"
    /\ UNCHANGED <<argv, fs, writable, input_files, output_file, add_comments,
                   files_to_process, ri, fi, feeds, all_feeds, seen_urls, markerPos,
                   called, output, ret, exit_code, stdout>>

\* lines 89-99: write the file, report and return the count
WriteOutput ==
    /\ pc = "write"
    /\ writable
    /\ output' = <<WriteAll(all_feeds, add_comments)>>
    /\ ret' = ReturnValue(all_feeds, seen_urls)
    /\ stdout' = Append(stdout, Event("converted", output_file, Cardinality(seen_urls)))
    /\ pc' = "returned"
    /\ UNCHANGED <<argv, fs, writable, input_files, output_file, add_comments,
                   files_to_process, ri, fi, feeds, all_feeds, seen_urls, markerPos,
                   called, exit_code>>

\* line 89: open() raises
WriteFails ==
    /\ pc = "write"
    /\ ~writable
    /\ pc' = "raised"
    /\ UNCHANGED <<argv, fs, writable, input_files, output_file, add_comments,
                   files_to_process, ri, fi, feeds, all_feeds, seen_urls, markerPos,
                   called, output, ret, exit_code, stdout>>

\* lines 124-125, then the normal end of the process
MainDone ==
    /\ pc = "returned"
    /\ ViaMain
    /\ stdout' = Append(stdout, Event("done", output_file, 0))
    /\ exit_code' = 0
    /\ pc' = "exit"
    /\ UNCHANGED <<argv, fs, writable, input_files, output_file, add_comments,
                   files_to_process, ri, fi, feeds, all_feeds, seen_urls, markerPos,
                   called, output, ret>>

\* lines 126-128
MainError ==
    /\ pc = "raised"
    /\ ViaMain
    /\ stdout' = Append(stdout, Event("error", EmptyStr, 0))
    /\ exit_code' = 1
    /\ pc' = "exit"
    /\ UNCHANGED <<argv, fs, writable, input_files, output_file, add_comments,
                   files_to_process, ri, fi, feeds, all_feeds, seen_urls, markerPos,
                   called, output, ret>>

Next ==
    \/ MainUsage
    \/ MainParse
    \/ ResolvePattern
    \/ ResolveDone
    \/ SkipMissing
    \/ ProcessFile
    \/ LoopDone
    \/ WriteOutput
    \/ WriteFails
    \/ MainDone
    \/ MainError

----------------------------------------------------------------------------
(* Inputs *)

SeqUpTo(S, n) == UNION {[1..k -> S] : k \in 0..n}

Prog == <<"p", "y">>
A_opml == <<"a">> \o DotOpml
B_opml == <<"b">> \o DotOpml
Sub_opml == <<"d", "/", "c">> \o DotOpml
Out_txt == <<"o", ".", "t", "x", "t">>
StarOpml == <<"*">> \o DotOpml

UrlA == <<"a">>
UrlUpperA == <<"A">>
UrlB == <<"b">>
UrlHash == <<"#", "a">>
TitleT == <<"T">>
TitleU == <<"U">>
TextX == <<"X">>

RootNode == Node("opml", 0, Attrs(None, None, None))
Folder(parent) == Node("outline", parent, Attrs(None, Some(TitleT), None))

\* one feed with a title
DocOne ==
    << RootNode, Node("outline", 1, Attrs(Some(UrlA), Some(TitleT), None)) >>

\* a folder holding a feed named by its text, then a feed with an empty title
DocTwo ==
    << RootNode, Folder(1),
       Node("outline", 2, Attrs(Some(UrlB), None, Some(TextX))),
       Node("outline", 1, Attrs(Some(UrlA), Some(EmptyStr), None)) >>

\* the same url twice in one file, differing only in case from DocOne's
DocDup ==
    << RootNode,
       Node("outline", 1, Attrs(Some(UrlUpperA), None, None)),
       Node("outline", 1, Attrs(Some(UrlUpperA), Some(TitleU), None)) >>

\* a feed whose url starts with the comment character
DocHash ==
    << RootNode,
       Node("outline", 1, Attrs(Some(UrlHash), Some(TitleT), None)),
       Node("outline", 1, Attrs(Some(UrlB), None, None)) >>

\* folders only
DocFolder == << RootNode, Folder(1) >>

\* a text that stops being XML after its first feed
Bad == Malformed(DocOne)

Contents == {Missing, Bad, Xml(DocOne), Xml(DocTwo), Xml(DocDup), Xml(DocHash), Xml(DocFolder)}

Patterns == {A_opml, B_opml, Sub_opml, StarOpml}

MainArgs == {A_opml, B_opml, Out_txt, NoCommentsFlag, StarOpml}

FsOf(ca, cb, cs) ==
    [p \in {A_opml, B_opml, Sub_opml} |->
        IF p = A_opml THEN ca ELSE IF p = B_opml THEN cb ELSE cs]

\* generated documents: every attribute combination on a single element ...
AttrDocs ==
    { << Node(t, 0, Attrs(u, ti, te)) >> :
        t \in {"outline", "opml"},
        u \in {None, Some(EmptyStr), Some(UrlA), Some(UrlHash)},
        ti \in {None, Some(EmptyStr), Some(TitleT)},
        te \in {None, Some(EmptyStr), Some(TextX)} }

\* ... and every tree shape over a few kinds of element
ShapeKinds ==
    { [tag |-> "outline", attrs |-> Attrs(None, Some(TitleT), None)],
      [tag |-> "outline", attrs |-> Attrs(Some(UrlA), Some(TitleT), None)],
      [tag |-> "outline", attrs |-> Attrs(Some(UrlB), None, Some(TextX))],
      [tag |-> "outline", attrs |-> Attrs(Some(EmptyStr), None, None)],
      [tag |-> "body", attrs |-> Attrs(Some(UrlA), None, None)] }

RECURSIVE IsAncestorOrSelf(_, _, _)
IsAncestorOrSelf(par, a, n) == a = n \/ (n > 1 /\ IsAncestorOrSelf(par, a, par[n]))

\* parent maps of the trees with n elements listed in document order
ParentMaps(n) ==
    { par \in [2..n -> 1..(n - 1)] :
        \A i \in 2..n : /\ par[i] < i
                        /\ i > 2 => IsAncestorOrSelf(par, par[i], i - 1) }

ShapeDocs ==
    UNION { { [i \in 1..n |-> IF i = 1 THEN RootNode
                              ELSE Node(kind[i].tag, par[i], kind[i].attrs)] :
                kind \in [2..n -> ShapeKinds], par \in ParentMaps(n) } :
            n \in 2..(MaxNodes + 1) }

Docs == AttrDocs \cup ShapeDocs

Start(av, files, w, at, inp, outp, ac, cl) ==
    /\ argv = av
    /\ fs = files
    /\ writable = w
    /\ pc = at
    /\ input_files = inp
    /\ output_file = outp
    /\ add_comments = ac
    /\ files_to_process = <<>>
    /\ ri = 1
    /\ fi = 1
    /\ feeds = <<>>
    /\ all_feeds = <<>>
    /\ seen_urls = {}
    /\ markerPos = {}
    /\ called = cl
    /\ output = <<>>
    /\ ret = -1
    /\ exit_code = -1
    /\ stdout = <<>>

\* the program run from the command line
InitMain ==
    \E args \in SeqUpTo(MainArgs, MaxArgs), w \in BOOLEAN :
        Start(<<Prog>> \o args, FsOf(Xml(DocOne), Xml(DocTwo), Missing), w, "main",
              <<>>, DefaultOutput, TRUE, FALSE)

\* process_opml_files called on a list of patterns
InitCall ==
    \E inp \in SeqUpTo(Patterns, MaxInputs), ca \in Contents, cb \in Contents,
       ac \in BOOLEAN, w \in BOOLEAN :
        Start(<<>>, FsOf(ca, cb, Xml(DocOne)), w, "resolve", inp, Out_txt, ac, TRUE)

\* process_opml_files called on one generated document
InitDoc ==
    \E d \in Docs, ac \in BOOLEAN :
        Start(<<>>, FsOf(Xml(d), Missing, Missing), TRUE, "resolve", <<A_opml>>,
              Out_txt, ac, TRUE)

Init == InitMain \/ InitCall \/ InitDoc

Spec == Init /\ [][Next]_vars

----------------------------------------------------------------------------
(* Vocabulary of the properties *)

\* how many files of files_to_process the file loop has finished with
Processed ==
    IF pc \in {"main", "resolve"} THEN 0
    ELSE IF pc = "loop" THEN fi - 1 ELSE Len(files_to_process)

Indices(s) == [i \in 1..Len(s) |-> i]

Pick(s, idx) == [k \in 1..Len(idx) |-> s[idx[k]]]

\* the records of all_feeds that are not section markers
FeedRecords == Pick(all_feeds, SelectSeq(Indices(all_feeds), LAMBDA i : i \notin markerPos))

Urls(fds) == [i \in 1..Len(fds) |-> fds[i].url]

\* a sequence of records with every occurrence of a url after its first removed
KeepFirst(s) ==
    Pick(s, SelectSeq(Indices(s), LAMBDA i : \A j \in 1..(i - 1) : s[j].url # s[i].url))

\* the records the first k files hold, in file order then document order
ExtractedUpTo(k) ==
    Flatten([i \in 1..k |-> extract_feeds_from_opml(FileAt(files_to_process[i]))])

ExtractedAll == ExtractedUpTo(Len(files_to_process))

\* the lines of a text, each ended by a newline
RECURSIVE Lines(_)
Lines(text) ==
    IF text = <<>> THEN <<>>
    ELSE LET ends == {i \in 1..Len(text) : text[i] = NL}
         IN  IF ends = {} THEN <<text>>
             ELSE LET k == CHOOSE i \in ends : \A j \in ends : i <= j
                  IN  <<SubSeq(text, 1, k - 1)>> \o Lines(SubSeq(text, k + 1, Len(text)))

----------------------------------------------------------------------------
(* C1 *)

\* C1: no two records of the accumulated output that are not section markers
\* have the same url, urls being compared as exact strings.
C1_NoDuplicateUrls ==
    \A i, j \in 1..Len(all_feeds) :
        (i < j /\ i \notin markerPos /\ j \notin markerPos)
            => all_feeds[i].url # all_feeds[j].url

\* a run that dropped a duplicate and kept two urls differing only in case
C1_Witness ==
    /\ pc = "returned"
    /\ Len(ExtractedAll) > Len(FeedRecords)
    /\ \E i, j \in 1..Len(all_feeds) :
           all_feeds[i].url = UrlA /\ all_feeds[j].url = UrlUpperA

----------------------------------------------------------------------------
(* C2 *)

\* C2: the feed records of the output are the per-file extracted sequences,
\* concatenated in file order then document order, with every occurrence of a
\* url after its first removed.
C2_FirstOccurrenceOrder == FeedRecords = KeepFirst(ExtractedUpTo(Processed))

\* two files, the second repeating a url of the first and adding a new one
C2_Witness ==
    /\ pc = "returned"
    /\ Len(files_to_process) = 2
    /\ ExtractedUpTo(1) # <<>>
    /\ Len(FeedRecords) > Len(KeepFirst(ExtractedUpTo(1)))
    /\ \E i \in 1..Len(ExtractedUpTo(1)) :
       \E j \in (Len(ExtractedUpTo(1)) + 1)..Len(ExtractedAll) :
           ExtractedAll[i].url = ExtractedAll[j].url

----------------------------------------------------------------------------
(* C3 *)

\* C3: the iteration of the file loop for a file appends the three section
\* markers (separator, "# Feeds from: <filename>", separator) right after the
\* records accumulated so far, hence right before the file's own records,
\* exactly when add_comments is true and the file's extraction gave at least
\* one record, duplicates of earlier files counted; otherwise it appends no
\* marker.
C3_MarkersIffExtracted ==
    [][ (pc = "loop" /\ fi' = fi + 1) =>
          LET f == files_to_process[fi]
              n == Len(extract_feeds_from_opml(FileAt(f)))
              base == Len(all_feeds)
          IN  IF add_comments /\ n >= 1
              THEN /\ markerPos' = markerPos \cup {base + 1, base + 2, base + 3}
                   /\ Len(all_feeds') >= base + 3
                   /\ SubSeq(all_feeds', 1, base) = all_feeds
                   /\ SubSeq(all_feeds', base + 1, base + 3) =
                        << Feed(SeparatorLine, EmptyStr),
                           Feed(FeedsFromPrefix \o PathName(f), EmptyStr),
                           Feed(SeparatorLine, EmptyStr) >>
              ELSE markerPos' = markerPos
      ]_vars

\* the second file held only duplicates of the first and still got its markers
C3_Witness ==
    /\ add_comments
    /\ pc = "loop"
    /\ fi = 3
    /\ Len(all_feeds) >= 7
    /\ {Len(all_feeds) - 2, Len(all_feeds) - 1, Len(all_feeds)} \subseteq markerPos
    /\ ExtractedUpTo(2) # ExtractedUpTo(1)

----------------------------------------------------------------------------
(* C4 *)

\* C4 as claimed: with add_comments false the written file has no line
\* starting with "#" and no blank line, and its lines are the extracted urls
\* in extraction order with duplicates removed.
C4_NoCommentLines ==
    (pc = "returned" /\ ~add_comments) =>
        LET ls == Lines(output[1])
        IN  /\ \A i \in 1..Len(ls) : ~StartsWith(ls[i], HashChar) /\ ls[i] # EmptyStr
            /\ ls = Urls(KeepFirst(ExtractedAll))

\* C4 as amended: with add_comments false the lines of the written file are
\* exactly the extracted urls in extraction order with duplicates removed, so
\* none is blank and one starts with "#" only when it is such a url.
C4_UrlLinesOnly ==
    (pc = "returned" /\ ~add_comments) =>
        LET ls == Lines(output[1])
        IN  /\ ls = Urls(KeepFirst(ExtractedAll))
            /\ \A i \in 1..Len(ls) : ls[i] # EmptyStr
            /\ \A i \in 1..Len(ls) :
                   StartsWith(ls[i], HashChar) =>
                       \E k \in 1..Len(ExtractedAll) : ExtractedAll[k].url = ls[i]

\* a run without comments that dropped a duplicate and wrote a url starting
\* with "#"
C4_Witness ==
    /\ pc = "returned"
    /\ ~add_comments
    /\ Len(ExtractedAll) > Len(Lines(output[1]))
    /\ Len(Lines(output[1])) >= 2
    /\ \E i \in 1..Len(Lines(output[1])) : StartsWith(Lines(output[1])[i], HashChar)

----------------------------------------------------------------------------
(* C5 *)

\* the command-line arguments with the flag taken out
Positional(av) == SelectSeq(SubSeq(av, 2, Len(av)), LAMBDA a : a # NoCommentsFlag)

\* the output-path rule on a list of positional arguments
RuleLastIsOutput(pos) == Len(pos) >= 2 /\ ~EndsWith(pos[Len(pos)], DotOpml)
RuleInputs(pos) == IF RuleLastIsOutput(pos) THEN SubSeq(pos, 1, Len(pos) - 1) ELSE pos
RuleOutput(pos) == IF RuleLastIsOutput(pos) THEN pos[Len(pos)] ELSE DefaultOutput

\* C5: the patterns and the output path that main passes on are those of the
\* output-path rule applied to the arguments with --no-comments taken out.
C5_FlagRemovable ==
    (ViaMain /\ called) =>
        /\ input_files = RuleInputs(Positional(argv))
        /\ output_file = RuleOutput(Positional(argv))

----------------------------------------------------------------------------
(* C6 *)

\* C6: a command line without any input pattern never enters
\* process_opml_files and never writes the output file, and ends with a
\* non-zero status after printing the usage text.
C6_UsageWithoutInput ==
    (ViaMain /\ Positional(argv) = <<>>) =>
        /\ ~called
        /\ output = <<>>
        /\ pc = "exit" =>
              /\ exit_code # 0
              /\ \E i \in 1..Len(stdout) : stdout[i].kind = "usage"

----------------------------------------------------------------------------
(* C7 *)

Readable(path) == FileAt(path).kind = "xml"

\* the aggregation of lines 57-84 over a list of readable files
RECURSIVE AggregateOver(_, _, _, _)
AggregateOver(files, all, seen, ac) ==
    IF files = <<>> THEN all
    ELSE LET fds == extract_feeds_from_opml(FileAt(Head(files)))
             r == AddFeeds(all \o HeaderFor(Head(files), fds, ac), seen, fds)
         IN  AggregateOver(Tail(files), r.all, r.seen, ac)

\* C7: the iteration for a path that does not exist or does not parse leaves
\* the accumulated output and the seen set as they were and moves on to the
\* next file, and the file written at the end is the one the readable files
\* alone would have given.
C7_BadFilesContributeNothing ==
    [][ /\ (/\ pc = "loop"
            /\ fi <= Len(files_to_process)
            /\ ~Readable(files_to_process[fi]))
           => /\ all_feeds' = all_feeds
              /\ seen_urls' = seen_urls
              /\ markerPos' = markerPos
              /\ pc' = "loop"
              /\ fi' = fi + 1
        /\ (pc = "write" /\ pc' = "returned")
           => output' = << WriteAll(AggregateOver(
                               SelectSeq(files_to_process, Readable),
                               <<>>, {}, add_comments), add_comments) >>
      ]_vars

\* a run over a file that does not parse and a readable file after it, with
\* comments on
C7_Witness ==
    /\ pc = "returned"
    /\ add_comments
    /\ \E i, k \in 1..Len(files_to_process) :
           /\ i < k
           /\ FileAt(files_to_process[i]).kind = "bad"
           /\ Readable(files_to_process[k])
    /\ FeedRecords # <<>>

----------------------------------------------------------------------------
(* C8 *)

\* C8: at every point the seen set has as many urls as the output has feed
\* records, and the value returned is the number of distinct urls extracted
\* from the files that exist and parse.
C8_UniqueCount ==
    /\ Cardinality(seen_urls) = Len(FeedRecords)
    /\ pc = "returned" =>
           ret = Cardinality({ExtractedAll[i].url : i \in 1..Len(ExtractedAll)})

\* a run with markers in the output that returned fewer than it extracted
C8_Witness ==
    /\ pc = "returned"
    /\ markerPos # {}
    /\ ret >= 2
    /\ ret < Len(ExtractedAll)

----------------------------------------------------------------------------
(* C9 *)

\* the lines of one record: a title line for a titled feed, the url, and a
\* blank line after a feed
RecordLines(rec, isMarker) ==
    (IF ~isMarker /\ rec.title # EmptyStr THEN <<TitlePrefix \o rec.title>> ELSE <<>>)
    \o <<rec.url>>
    \o (IF ~isMarker THEN <<EmptyStr>> ELSE <<>>)

\* C9 as claimed: with add_comments true every extracted feed record gives
\* its title line when it has a title, its url and a blank line, and every
\* section marker gives its one line.
C9_FeedRecordLines ==
    (pc = "returned" /\ add_comments) =>
        Lines(output[1]) =
            Flatten([i \in 1..Len(all_feeds) |->
                        RecordLines(all_feeds[i], i \in markerPos)])

\* C9 as amended: with add_comments true a record whose url does not start
\* with "#" gives its title line when it has a title, its url and a blank
\* line; a record whose url starts with "#", a section marker or an extracted
\* feed, gives the one line of its url.
C9_HashRecordLines ==
    (pc = "returned" /\ add_comments) =>
        Lines(output[1]) =
            Flatten([i \in 1..Len(all_feeds) |->
                        RecordLines(all_feeds[i], StartsWith(all_feeds[i].url, HashChar))])

\* a run with comments whose output holds a marker, a titled feed, an untitled
\* feed and a titled feed whose url starts with "#"
C9_Witness ==
    /\ pc = "returned"
    /\ add_comments
    /\ markerPos # {}
    /\ \E i, j, k \in 1..Len(all_feeds) :
           /\ {i, j, k} \cap markerPos = {}
           /\ ~StartsWith(all_feeds[i].url, HashChar) /\ all_feeds[i].title # EmptyStr
           /\ ~StartsWith(all_feeds[j].url, HashChar) /\ all_feeds[j].title = EmptyStr
           /\ StartsWith(all_feeds[k].url, HashChar) /\ all_feeds[k].title # EmptyStr

----------------------------------------------------------------------------
(* C10 *)

HasValue(node, key) == Len(node.attrs[key]) = 1 /\ Len(node.attrs[key][1]) > 0

\* one record per outline element with a feed url, in document order
ExpectedFeeds(doc) ==
    LET idx == SelectSeq(Indices(doc),
                         LAMBDA i : doc[i].tag = "outline" /\ HasValue(doc[i], "xmlUrl"))
    IN  [k \in 1..Len(idx) |->
            LET node == doc[idx[k]]
            IN  [url |-> node.attrs.xmlUrl[1],
                 title |-> IF HasValue(node, "title") THEN node.attrs.title[1]
                           ELSE IF HasValue(node, "text") THEN node.attrs.text[1]
                           ELSE EmptyStr]]

\* C10: the extraction of a parsed document is one record per outline element
\* that has a non-empty xmlUrl, at any depth and in document order, none for
\* any other element, with the title taken from title, else text, else "".
C10_ExtractInDocumentOrder ==
    (Processed >= 1 /\ Readable(files_to_process[Processed])) =>
        feeds = ExpectedFeeds(FileAt(files_to_process[Processed]).doc)

\* a folder without feed url that holds two feeds: two records
C10_Witness ==
    /\ Processed >= 1
    /\ Readable(files_to_process[Processed])
    /\ LET doc == FileAt(files_to_process[Processed]).doc
       IN  /\ Len(doc) = 4
           /\ doc[2].tag = "outline" /\ doc[2].attrs.xmlUrl = None
           /\ doc[3].parent = 2 /\ doc[4].parent = 2
           /\ HasValue(doc[3], "xmlUrl") /\ HasValue(doc[4], "xmlUrl")
    /\ Len(feeds) = 2

====
